---- MODULE Spec2Model ----
(***************************************************************************)
(* Model of src/src/core/metrics.cc (class Metrics, built with both        *)
(* TRITON_ENABLE_METRICS and TRITON_ENABLE_METRICS_GPU defined).           *)
(*                                                                         *)
(* Threads of the program:                                                 *)
(*   - the callers of the static EnableGPUMetrics(), one per element of    *)
(*     Callers, each at a position pc[c] inside the call;                  *)
(*   - the sampler thread created by InitializeNvmlMetrics(), at position  *)
(*     spc inside its lambda;                                              *)
(*   - the thread that runs ~Metrics() at process teardown, at dpc;        *)
(*   - callers of UUIDForCudaDevice(), EnableMetrics() and Enabled(),      *)
(*     each call one atomic step (they take no lock and do not block).     *)
(*                                                                         *)
(* The CUDA / NVML calls are the environment: the result of each call is   *)
(* chosen nondeterministically (\E) among success and failure.             *)
(*                                                                         *)
(* Exposed metric values are doubles in the source.  They are kept here as *)
(* exact fixed-point numbers, an integer count of 1/PerUnit, so that       *)
(* 0.001 and 0.01 are both exactly representable.                          *)
(***************************************************************************)
EXTENDS Integers, Sequences, FiniteSets, TLC

(***************************************************************************)
(* Bounds of the model                                                     *)
(***************************************************************************)
\* CUDA devices the machine may report (cudaGetDeviceCount returns 0..MaxDevices)
MaxDevices == 2
\* threads that call EnableGPUMetrics(), concurrently or one after the other
NCallers == 2
\* sampling rounds the sampler thread performs before it only waits for exit
MaxRounds == 4
\* sampling rounds of the long runs, in which a pair trips after it was read with
\* success and further rounds follow
MaxLongRounds == 6
\* <<device, kind>> pairs whose hardware read fails at least once over one run
MaxFaulty == 1
\* calls of UUIDForCudaDevice over one run
MaxLookups == 1
\* the width, in bits, of the word standing for `unsigned long long`
\* (the wrap-around of the subtraction is kept, the word is narrowed)
EnergyBits == 16

Callers == 1..NCallers

\* fixed-point denominator of the exposed values
PerUnit == 1000 * 100

(***************************************************************************)
(* Program constants                                                       *)
(***************************************************************************)
fail_threshold == 3

\* the label value used when nvmlDeviceGetUUID fails
UnknownUuid == "unknown"

\* what nvmlDeviceGetUUID writes for the device with CUDA index i
UuidStr(i) == <<"GPU-0", "GPU-1", "GPU-2", "GPU-3", "GPU-4">>[i + 1]

(***************************************************************************)
(* The hardware: what the reads can return                                 *)
(***************************************************************************)
\* outcomes of the per-device steps of the enumeration loop
EnumOutcomes == {"props_fail", "busid_fail", "handle_fail", "uuid_fail", "ok"}

\* outcomes of the three calls of UUIDForCudaDevice
LookupOutcomes == {"busid_fail", "handle_fail", "uuid_fail", "ok"}

\* indices a caller may pass to UUIDForCudaDevice; MaxDevices is out of range
LookupIndices == 0..MaxDevices

\* raw values a successful read returns
PowerLimitReadings == {250000}
PowerUsageReadings == {125000}
UtilReadings == {57}
MemReadings == {[total |-> 16000, used |-> 4000]}
\* nvmlDeviceGetTotalEnergyConsumption: the raw reading of the meters, round after
\* round, is one of these traces (a meter that starts above zero and never
\* decreases; one that reads 0 at first and is reset between rounds 2 and 3)
EnergyTraces == {<<1000, 1500, 1500, 2200, 2200, 3000, 3000, 3400>>,
                 <<0, 1500, 500, 1000, 1500, 2200, 2200, 3000>>}

(***************************************************************************)
(* State                                                                   *)
(***************************************************************************)
VARIABLES
  \* the environment
  cpu_only,                \* getenv("TRITON_SERVER_CPU_ONLY") != nullptr
  energy_trace,            \* the raw energy readings of this run, by round
  \* fields of the singleton
  metrics_enabled_,
  gpu_metrics_enabled_,
  gpu_metrics_enabling_,   \* the mutex: 0 when free, else the caller holding it
  nvml_device_,            \* sequence of handles; a handle is the CUDA index
  gpu_labels,              \* the uuid label of the instances of each tracked device
  gpu_utilization_,        \* the six vectors of metric instances: their values
  gpu_memory_total_,
  gpu_memory_used_,
  gpu_power_usage_,
  gpu_power_limit_,
  gpu_energy_consumption_,
  nvml_thread_,            \* nvml_thread_ != nullptr
  nvml_thread_exit_,
  \* EnableGPUMetrics / InitializeNvmlMetrics, per caller and locals
  pc,
  dcnt,
  didx,
  init_ret,                \* what InitializeNvmlMetrics returned: "none" before
  \* the sampler thread: position and locals of the lambda
  spc,
  s_dcnt,                  \* the captured dcnt
  s_didx,
  power_limit_fail_cnt,
  power_usage_fail_cnt,
  energy_fail_cnt,
  util_fail_cnt,
  mem_fail_cnt,
  last_energy,
  \* ~Metrics
  dpc,
  \* UUIDForCudaDevice: the caller's std::string and the last call
  uuid,
  lookup,
  \* Enabled(): what the last call returned, "none" before the first call
  enabled_ret,
  \* history variables (not program state)
  init_runs,               \* entries into InitializeNvmlMetrics
  threads_started,         \* std::thread objects constructed
  exit_at_start,           \* nvml_thread_exit_ when the thread was constructed
  device_count,            \* what cudaGetDeviceCount reported: -1 before
  enum_log,                \* the outcome of the loop body for each CUDA index so far
  rounds,                  \* sampling rounds begun
  failed_pairs,            \* <<device, kind>> pairs with a failed read so far
  lookups,                 \* calls of UUIDForCudaDevice so far
  round_reads,             \* <<device, kind>> pairs read in the current round
  consecutive,             \* consecutive failed reads of each pair, as observed
  energy_seeded,           \* devices with at least one successful energy read
  first_energy             \* the raw reading of that first read, -1 before it

singleton_flags == <<metrics_enabled_, gpu_metrics_enabled_>>
instances == <<gpu_labels, gpu_utilization_, gpu_memory_total_, gpu_memory_used_,
               gpu_power_usage_, gpu_power_limit_, gpu_energy_consumption_>>
thread_fields == <<nvml_thread_, nvml_thread_exit_>>
init_locals == <<dcnt, didx, init_ret>>
fail_cnts == <<power_limit_fail_cnt, power_usage_fail_cnt, energy_fail_cnt,
               util_fail_cnt, mem_fail_cnt>>
sampler_locals == <<s_dcnt, s_didx, fail_cnts, last_energy>>
lookup_vars == <<uuid, lookup, lookups>>
enable_history == <<init_runs, threads_started, exit_at_start, device_count,
                    enum_log>>
sampler_history == <<rounds, failed_pairs, round_reads, consecutive, energy_seeded,
                     first_energy>>

vars == <<cpu_only, enabled_ret, energy_trace,
          singleton_flags, gpu_metrics_enabling_, nvml_device_, instances,
          thread_fields, pc, init_locals, spc, sampler_locals, dpc, lookup_vars,
          enable_history, sampler_history>>

Kinds == {"power_limit", "power_usage", "energy", "util", "mem"}

\* the state after Metrics::Metrics(): both flags false, no device, no thread.
\* nvml_thread_exit_ has no initializer in the constructor: either value.
Init ==
  /\ cpu_only \in BOOLEAN
  /\ energy_trace \in EnergyTraces
  /\ metrics_enabled_ = FALSE
  /\ gpu_metrics_enabled_ = FALSE
  /\ gpu_metrics_enabling_ = 0
  /\ nvml_device_ = <<>>
  /\ gpu_labels = <<>>
  /\ gpu_utilization_ = <<>>
  /\ gpu_memory_total_ = <<>>
  /\ gpu_memory_used_ = <<>>
  /\ gpu_power_usage_ = <<>>
  /\ gpu_power_limit_ = <<>>
  /\ gpu_energy_consumption_ = <<>>
  /\ nvml_thread_ = FALSE
  /\ nvml_thread_exit_ \in BOOLEAN
  /\ pc = [c \in Callers |-> "idle"]
  /\ dcnt = 0
  /\ didx = 0
  /\ init_ret = "none"
  /\ spc = "none"
  /\ s_dcnt = 0
  /\ s_didx = 0
  /\ power_limit_fail_cnt = <<>>
  /\ power_usage_fail_cnt = <<>>
  /\ energy_fail_cnt = <<>>
  /\ util_fail_cnt = <<>>
  /\ mem_fail_cnt = <<>>
  /\ last_energy = <<>>
  /\ dpc = "alive"
  /\ uuid = ""
  /\ lookup = [called |-> FALSE, cuda_device |-> 0, outcome |-> "ok", ret |-> FALSE,
               hw_calls |-> 0]
  /\ enabled_ret = "none"
  /\ init_runs = 0
  /\ threads_started = 0
  /\ exit_at_start = FALSE
  /\ device_count = -1
  /\ enum_log = <<>>
  /\ rounds = 0
  /\ failed_pairs = {}
  /\ lookups = 0
  /\ round_reads = {}
  /\ consecutive = [k \in Kinds |-> <<>>]
  /\ energy_seeded = {}
  /\ first_energy = <<>>

(***************************************************************************)
(* Metrics::Enabled and Metrics::EnableMetrics                             *)
(***************************************************************************)
EnableMetrics ==
  /\ dpc = "alive"
  /\ metrics_enabled_' = TRUE
  /\ UNCHANGED <<cpu_only, enabled_ret, energy_trace,
                 gpu_metrics_enabled_, gpu_metrics_enabling_, nvml_device_,
                 instances, thread_fields, pc, init_locals, spc, sampler_locals, dpc,
                 lookup_vars, enable_history, sampler_history>>

\* (variant for the checks of C11: Enabled() returns the other flag)
EnabledOfGpuFlag == gpu_metrics_enabled_

\* the value Enabled() returns
Enabled == metrics_enabled_

\* a call of Enabled(): the caller receives the value, nothing is written
CallEnabled ==
  /\ dpc = "alive"
  /\ enabled_ret' = IF Enabled THEN "true" ELSE "false"
  /\ UNCHANGED <<cpu_only, energy_trace, singleton_flags, gpu_metrics_enabling_,
                 nvml_device_, instances, thread_fields, pc, init_locals, spc,
                 sampler_locals, dpc, lookup_vars, enable_history, sampler_history>>

(***************************************************************************)
(* Metrics::EnableGPUMetrics                                               *)
(***************************************************************************)
\* std::lock_guard<std::mutex> lock(singleton->gpu_metrics_enabling_)
AcquireEnabling(c) ==
  /\ dpc = "alive"
  /\ pc[c] = "idle"
  /\ gpu_metrics_enabling_ = 0
  /\ gpu_metrics_enabling_' = c
  /\ pc' = [pc EXCEPT ![c] = "locked"]
  /\ UNCHANGED <<cpu_only, enabled_ret, energy_trace,
                 singleton_flags, nvml_device_, instances, thread_fields,
                 init_locals, spc, sampler_locals, dpc, lookup_vars, enable_history,
                 sampler_history>>

\* (variant for the checks of C2: the flag is not tested again under the lock)
AlreadyEnabledIgnored(flag) == FALSE

\* the test of gpu_metrics_enabled_ under the lock
AlreadyEnabled(flag) == flag

\* if (gpu_metrics_enabled_) return;  -- the lock_guard releases the mutex
ReturnIfEnabled(c) ==
  /\ pc[c] = "locked"
  /\ AlreadyEnabled(gpu_metrics_enabled_)
  /\ gpu_metrics_enabling_' = 0
  /\ pc' = [pc EXCEPT ![c] = "done"]
  /\ UNCHANGED <<cpu_only, enabled_ret, energy_trace,
                 singleton_flags, nvml_device_, instances, thread_fields,
                 init_locals, spc, sampler_locals, dpc, lookup_vars, enable_history,
                 sampler_history>>

\* (variant for the checks of C5: the test of getenv inverted)
DiscoverySkippedInverted(env) == ~env

\* the test std::getenv("TRITON_SERVER_CPU_ONLY") == nullptr, negated: whether
\* discovery is skipped when the variable is present (env) or absent
DiscoverySkipped(env) == env

\* if (std::getenv("TRITON_SERVER_CPU_ONLY") == nullptr) InitializeNvmlMetrics();
\* with the variable present the call is skipped
SkipDiscovery(c) ==
  /\ pc[c] = "locked"
  /\ ~AlreadyEnabled(gpu_metrics_enabled_)
  /\ DiscoverySkipped(cpu_only)
  /\ pc' = [pc EXCEPT ![c] = "set_enabled"]
  /\ UNCHANGED <<cpu_only, enabled_ret, energy_trace,
                 singleton_flags, gpu_metrics_enabling_, nvml_device_,
                 instances, thread_fields, init_locals, spc, sampler_locals, dpc,
                 lookup_vars, enable_history, sampler_history>>

\* (variant for the checks of C17: the flag is set before discovery, not after)
EnterInitializeFlagFirst(c) ==
  /\ pc[c] = "locked"
  /\ ~AlreadyEnabled(gpu_metrics_enabled_)
  /\ ~DiscoverySkipped(cpu_only)
  /\ pc' = [pc EXCEPT ![c] = "nvml_init"]
  /\ init_runs' = init_runs + 1
  /\ gpu_metrics_enabled_' = TRUE
  /\ UNCHANGED <<cpu_only, enabled_ret, energy_trace, metrics_enabled_,
                 gpu_metrics_enabling_, nvml_device_, instances, thread_fields,
                 init_locals, spc, sampler_locals, dpc, lookup_vars, threads_started,
                 exit_at_start, device_count, enum_log, sampler_history>>

\* ... without it InitializeNvmlMetrics() is entered
EnterInitialize(c) ==
  /\ pc[c] = "locked"
  /\ ~AlreadyEnabled(gpu_metrics_enabled_)
  /\ ~DiscoverySkipped(cpu_only)
  /\ pc' = [pc EXCEPT ![c] = "nvml_init"]
  /\ init_runs' = init_runs + 1
  /\ UNCHANGED <<cpu_only, enabled_ret, energy_trace,
                 singleton_flags, gpu_metrics_enabling_, nvml_device_,
                 instances, thread_fields, init_locals, spc, sampler_locals, dpc,
                 lookup_vars, threads_started, exit_at_start, device_count, enum_log,
                 sampler_history>>

\* the value EnableGPUMetrics stores into gpu_metrics_enabled_ once
\* InitializeNvmlMetrics has returned `ret` ("none" when it was skipped):
\* the return value is discarded, the flag is set unconditionally
EnabledAfter(ret) == TRUE

\* singleton->gpu_metrics_enabled_ = true;  and the lock_guard releases the mutex
SetEnabled(c) ==
  /\ pc[c] = "set_enabled"
  /\ gpu_metrics_enabled_' = EnabledAfter(init_ret)
  /\ gpu_metrics_enabling_' = 0
  /\ pc' = [pc EXCEPT ![c] = "done"]
  /\ UNCHANGED <<cpu_only, enabled_ret, energy_trace,
                 metrics_enabled_, nvml_device_, instances, thread_fields,
                 init_locals, spc, sampler_locals, dpc, lookup_vars, enable_history,
                 sampler_history>>

(***************************************************************************)
(* Metrics::InitializeNvmlMetrics, run by the caller holding the mutex     *)
(***************************************************************************)
\* nvmlInit(): on failure return false
NvmlInit(c) ==
  /\ pc[c] = "nvml_init"
  /\ \/ /\ pc' = [pc EXCEPT ![c] = "get_count"]
        /\ UNCHANGED init_ret
     \/ /\ init_ret' = "false"
        /\ pc' = [pc EXCEPT ![c] = "set_enabled"]
  /\ UNCHANGED <<cpu_only, enabled_ret, energy_trace,
                 singleton_flags, gpu_metrics_enabling_, nvml_device_,
                 instances, thread_fields, dcnt, didx, spc, sampler_locals, dpc,
                 lookup_vars, enable_history, sampler_history>>

\* cudaGetDeviceCount(&dcnt): on failure return false
GetDeviceCount(c) ==
  /\ pc[c] = "get_count"
  /\ \/ /\ \E n \in 0..MaxDevices : dcnt' = n
        /\ device_count' = dcnt'
        /\ didx' = 0
        /\ pc' = [pc EXCEPT ![c] = "enumerate"]
        /\ UNCHANGED init_ret
     \/ /\ init_ret' = "false"
        /\ pc' = [pc EXCEPT ![c] = "set_enabled"]
        /\ UNCHANGED <<dcnt, didx, device_count>>
  /\ UNCHANGED <<cpu_only, enabled_ret, energy_trace,
                 singleton_flags, gpu_metrics_enabling_,
                 nvml_device_, instances, thread_fields, spc, sampler_locals, dpc,
                 lookup_vars, init_runs, threads_started, exit_at_start, enum_log,
                 sampler_history>>

\* (variant for the checks of C8: a failed nvmlDeviceGetUUID skips the device too)
TrackedUuidOnly(outcome) == outcome = "ok"

\* (variant for the checks of C9: no `continue` after a failed handle lookup)
TrackedPastHandle(outcome) == outcome \in {"ok", "uuid_fail", "handle_fail"}

\* whether the loop body reaches the push_backs for this outcome of its calls:
\* the three `continue`s skip the device; a failed nvmlDeviceGetUUID does not
Tracked(outcome) == outcome \in {"ok", "uuid_fail"}

\* the uuid label: uuid_str on success, "unknown" otherwise
LabelFor(i, outcome) == IF outcome = "ok" THEN UuidStr(i) ELSE UnknownUuid

\* one iteration of `for (didx = 0; didx < dcnt; ++didx)` whose calls have the
\* given outcome.  nvmlDeviceGetName only selects the log line and is left out.
EnumerateDevice(c, outcome) ==
  /\ pc[c] = "enumerate"
  /\ didx < dcnt
  /\ IF Tracked(outcome)
     THEN /\ gpu_labels' = Append(gpu_labels, LabelFor(didx, outcome))
          /\ gpu_utilization_' = Append(gpu_utilization_, 0)
          /\ gpu_memory_total_' = Append(gpu_memory_total_, 0)
          /\ gpu_memory_used_' = Append(gpu_memory_used_, 0)
          /\ gpu_power_usage_' = Append(gpu_power_usage_, 0)
          /\ gpu_power_limit_' = Append(gpu_power_limit_, 0)
          /\ gpu_energy_consumption_' = Append(gpu_energy_consumption_, 0)
          /\ nvml_device_' = Append(nvml_device_, didx)
     ELSE UNCHANGED <<instances, nvml_device_>>
  /\ didx' = didx + 1
  /\ enum_log' = Append(enum_log, outcome)
  /\ UNCHANGED <<cpu_only, enabled_ret, energy_trace,
                 singleton_flags, gpu_metrics_enabling_,
                 thread_fields, pc, dcnt, init_ret, spc, sampler_locals, dpc,
                 lookup_vars, init_runs, threads_started, exit_at_start, device_count,
                 sampler_history>>

\* (variant for the checks of C10: the thread is started for zero devices too)
StartsThreadAlways(n) == n >= 0

\* the test `if (dcnt > 0)` that guards the construction of the thread
StartsThread(n) == n > 0

\* the value nvml_thread_exit_ holds when the thread is constructed:
\* nvml_thread_exit_.store(false) comes first
ExitAtStart(old) == FALSE

\* after the loop: dcnt = nvml_device_.size(); if (dcnt > 0) start the thread
\* (its vectors of dcnt zeros and last_energy are set before its loop); return true
FinishInitialize(c) ==
  /\ pc[c] = "enumerate"
  /\ didx >= dcnt
  /\ dcnt' = Len(nvml_device_)
  /\ IF StartsThread(Len(nvml_device_))
     THEN /\ nvml_thread_exit_' = ExitAtStart(nvml_thread_exit_)
          /\ nvml_thread_' = TRUE
          /\ threads_started' = threads_started + 1
          /\ exit_at_start' = ExitAtStart(nvml_thread_exit_)
          /\ spc' = "loop"
          /\ s_dcnt' = Len(nvml_device_)
          /\ s_didx' = 0
          /\ power_limit_fail_cnt' = [d \in 1..Len(nvml_device_) |-> 0]
          /\ power_usage_fail_cnt' = [d \in 1..Len(nvml_device_) |-> 0]
          /\ energy_fail_cnt' = [d \in 1..Len(nvml_device_) |-> 0]
          /\ util_fail_cnt' = [d \in 1..Len(nvml_device_) |-> 0]
          /\ mem_fail_cnt' = [d \in 1..Len(nvml_device_) |-> 0]
          /\ last_energy' = [d \in 1..Len(nvml_device_) |-> 0]
          /\ consecutive' = [k \in Kinds |-> [d \in 1..Len(nvml_device_) |-> 0]]
          /\ first_energy' = [d \in 1..Len(nvml_device_) |-> -1]
     ELSE UNCHANGED <<thread_fields, threads_started, exit_at_start, spc,
                      sampler_locals, consecutive, first_energy>>
  /\ init_ret' = "true"
  /\ pc' = [pc EXCEPT ![c] = "set_enabled"]
  /\ UNCHANGED <<cpu_only, enabled_ret, energy_trace,
                 singleton_flags, gpu_metrics_enabling_,
                 nvml_device_, instances, didx, dpc, lookup_vars, init_runs,
                 device_count, enum_log, rounds, failed_pairs, round_reads,
                 energy_seeded>>

(***************************************************************************)
(* The sampler thread: the lambda passed to std::thread.  Devices are      *)
(* addressed by their position 1..s_dcnt in nvml_device_ (didx + 1).       *)
(***************************************************************************)
\* (variant for the checks of C1: `<=` for `<`)
AttemptUpToThreshold(cnt) == cnt <= fail_threshold

\* if (xxx_fail_cnt[didx] < fail_threshold)
Attempt(cnt) == cnt < fail_threshold

\* (variant for the checks of C13: a success does not reset the counter)
OnSuccessKept(cnt) == cnt

\* xxx_fail_cnt[didx] = 0;
OnSuccess(cnt) == 0

\* (variant for the checks of C14: a failure counts twice)
OnFailureByTwo(cnt) == cnt + 2

\* xxx_fail_cnt[didx]++;
OnFailure(cnt) == cnt + 1

\* (double)x * 0.001
Milli(x) == x * (PerUnit \div 1000)

\* (variant for the checks of C12: the utilization scaled like the power)
PercentAsMilli(x) == x * (PerUnit \div 1000)

\* (double)util.gpu * 0.01
Percent(x) == x * (PerUnit \div 100)

\* Set(mem.total), Set(mem.used): the byte count converted to double
Bytes(x) == x * PerUnit

\* unsigned long long arithmetic wraps modulo 2^64; here modulo 2^EnergyBits
EnergyModulus == 2 ^ EnergyBits

\* if (last_energy[didx] == 0) last_energy[didx] = energy;
SeededLast(last, energy) == IF last = 0 THEN energy ELSE last

\* (variant for the checks of C19: the subtraction signed)
EnergyIncrementSigned(energy, last) == Milli(energy - last)

\* (double)(energy - last_energy[didx]) * 0.001, the subtraction unsigned
EnergyIncrement(energy, last) == Milli((energy - last) % EnergyModulus)

\* (variant for the checks of C16: the loop goes on to the sleep whatever the flag)
LoopTestIgnoringExit ==
  /\ spc = "loop"
  /\ rounds < MaxRounds
  /\ spc' = "sleep"
  /\ UNCHANGED <<cpu_only, enabled_ret, energy_trace, singleton_flags,
                 gpu_metrics_enabling_, nvml_device_, instances, thread_fields, pc,
                 init_locals, sampler_locals, dpc, lookup_vars, enable_history,
                 sampler_history>>

\* while (!nvml_thread_exit_.load()): leave the loop, or go on to the sleep, in a
\* run of at most n rounds
LoopTestWithin(n) ==
  /\ spc = "loop"
  /\ IF nvml_thread_exit_
     THEN spc' = "exited"
     ELSE /\ rounds < n
          /\ spc' = "sleep"
  /\ UNCHANGED <<cpu_only, enabled_ret, energy_trace,
                 singleton_flags, gpu_metrics_enabling_, nvml_device_,
                 instances, thread_fields, pc, init_locals, sampler_locals, dpc,
                 lookup_vars, enable_history, sampler_history>>

LoopTest == LoopTestWithin(MaxRounds)

\* std::this_thread::sleep_for(2000 ms); then the round starts at didx = 0
Sleep ==
  /\ spc = "sleep"
  /\ spc' = "sample"
  /\ s_didx' = 1
  /\ rounds' = rounds + 1
  /\ round_reads' = {}
  /\ UNCHANGED <<cpu_only, enabled_ret, energy_trace,
                 singleton_flags, gpu_metrics_enabling_, nvml_device_,
                 instances, thread_fields, pc, init_locals, s_dcnt, fail_cnts,
                 last_energy, dpc, lookup_vars, enable_history, failed_pairs, consecutive,
                 energy_seeded, first_energy>>

\* the outcome of one kind in one iteration of the device loop: the read succeeded,
\* the read failed, or the read was not attempted
Outcomes == {"ok", "fail", "skip"}

\* (variant for the checks of C20: a failed read leaves the gauge as it was)
SamplePowerLimitStale(d, o) ==
  \/ /\ o = "ok"
     /\ Attempt(power_limit_fail_cnt[d])
     /\ \E power_limit \in PowerLimitReadings :
          gpu_power_limit_' = [gpu_power_limit_ EXCEPT ![d] = Milli(power_limit)]
     /\ power_limit_fail_cnt' = [power_limit_fail_cnt EXCEPT ![d] = OnSuccess(@)]
  \/ /\ o = "fail"
     /\ Attempt(power_limit_fail_cnt[d])
     /\ gpu_power_limit_' = gpu_power_limit_
     /\ power_limit_fail_cnt' = [power_limit_fail_cnt EXCEPT ![d] = OnFailure(@)]
  \/ /\ o = "skip"
     /\ ~Attempt(power_limit_fail_cnt[d])
     /\ UNCHANGED <<gpu_power_limit_, power_limit_fail_cnt>>

\* // Power limit
SamplePowerLimit(d, o) ==
  \/ /\ o = "ok"
     /\ Attempt(power_limit_fail_cnt[d])
     /\ \E power_limit \in PowerLimitReadings :
          gpu_power_limit_' = [gpu_power_limit_ EXCEPT ![d] = Milli(power_limit)]
     /\ power_limit_fail_cnt' = [power_limit_fail_cnt EXCEPT ![d] = OnSuccess(@)]
  \/ /\ o = "fail"
     /\ Attempt(power_limit_fail_cnt[d])
     /\ gpu_power_limit_' = [gpu_power_limit_ EXCEPT ![d] = Milli(0)]
     /\ power_limit_fail_cnt' = [power_limit_fail_cnt EXCEPT ![d] = OnFailure(@)]
  \/ /\ o = "skip"
     /\ ~Attempt(power_limit_fail_cnt[d])
     /\ UNCHANGED <<gpu_power_limit_, power_limit_fail_cnt>>

\* // Power usage
SamplePowerUsage(d, o) ==
  \/ /\ o = "ok"
     /\ Attempt(power_usage_fail_cnt[d])
     /\ \E power_usage \in PowerUsageReadings :
          gpu_power_usage_' = [gpu_power_usage_ EXCEPT ![d] = Milli(power_usage)]
     /\ power_usage_fail_cnt' = [power_usage_fail_cnt EXCEPT ![d] = OnSuccess(@)]
  \/ /\ o = "fail"
     /\ Attempt(power_usage_fail_cnt[d])
     /\ gpu_power_usage_' = [gpu_power_usage_ EXCEPT ![d] = Milli(0)]
     /\ power_usage_fail_cnt' = [power_usage_fail_cnt EXCEPT ![d] = OnFailure(@)]
  \/ /\ o = "skip"
     /\ ~Attempt(power_usage_fail_cnt[d])
     /\ UNCHANGED <<gpu_power_usage_, power_usage_fail_cnt>>

\* // Energy Consumption: on failure nothing is written to the counter
SampleEnergy(d, o) ==
  \/ /\ o = "ok"
     /\ Attempt(energy_fail_cnt[d])
     /\ \E energy \in {energy_trace[rounds]} :
          /\ gpu_energy_consumption_' =
               [gpu_energy_consumption_ EXCEPT ![d] =
                  @ + EnergyIncrement(energy, SeededLast(last_energy[d], energy))]
          /\ last_energy' = [last_energy EXCEPT ![d] = energy]
     /\ energy_fail_cnt' = [energy_fail_cnt EXCEPT ![d] = OnSuccess(@)]
  \/ /\ o = "fail"
     /\ Attempt(energy_fail_cnt[d])
     /\ energy_fail_cnt' = [energy_fail_cnt EXCEPT ![d] = OnFailure(@)]
     /\ UNCHANGED <<gpu_energy_consumption_, last_energy>>
  \/ /\ o = "skip"
     /\ ~Attempt(energy_fail_cnt[d])
     /\ UNCHANGED <<gpu_energy_consumption_, last_energy, energy_fail_cnt>>

\* // Utilization
SampleUtilization(d, o) ==
  \/ /\ o = "ok"
     /\ Attempt(util_fail_cnt[d])
     /\ \E util \in UtilReadings :
          gpu_utilization_' = [gpu_utilization_ EXCEPT ![d] = Percent(util)]
     /\ util_fail_cnt' = [util_fail_cnt EXCEPT ![d] = OnSuccess(@)]
  \/ /\ o = "fail"
     /\ Attempt(util_fail_cnt[d])
     /\ gpu_utilization_' = [gpu_utilization_ EXCEPT ![d] = Percent(0)]
     /\ util_fail_cnt' = [util_fail_cnt EXCEPT ![d] = OnFailure(@)]
  \/ /\ o = "skip"
     /\ ~Attempt(util_fail_cnt[d])
     /\ UNCHANGED <<gpu_utilization_, util_fail_cnt>>

\* (variant for the checks of C15: a failed read zeroes the total only, as if the
\* used gauge had a read of its own)
SampleMemoryUsedKept(d, o) ==
  \/ /\ o = "ok"
     /\ Attempt(mem_fail_cnt[d])
     /\ \E mem \in MemReadings :
          /\ gpu_memory_total_' = [gpu_memory_total_ EXCEPT ![d] = Bytes(mem.total)]
          /\ gpu_memory_used_' = [gpu_memory_used_ EXCEPT ![d] = Bytes(mem.used)]
     /\ mem_fail_cnt' = [mem_fail_cnt EXCEPT ![d] = OnSuccess(@)]
  \/ /\ o = "fail"
     /\ Attempt(mem_fail_cnt[d])
     /\ gpu_memory_total_' = [gpu_memory_total_ EXCEPT ![d] = Bytes(0)]
     /\ gpu_memory_used_' = gpu_memory_used_
     /\ mem_fail_cnt' = [mem_fail_cnt EXCEPT ![d] = OnFailure(@)]
  \/ /\ o = "skip"
     /\ ~Attempt(mem_fail_cnt[d])
     /\ UNCHANGED <<gpu_memory_total_, gpu_memory_used_, mem_fail_cnt>>

\* // Memory: one read and one counter for the two gauges
SampleMemory(d, o) ==
  \/ /\ o = "ok"
     /\ Attempt(mem_fail_cnt[d])
     /\ \E mem \in MemReadings :
          /\ gpu_memory_total_' = [gpu_memory_total_ EXCEPT ![d] = Bytes(mem.total)]
          /\ gpu_memory_used_' = [gpu_memory_used_ EXCEPT ![d] = Bytes(mem.used)]
     /\ mem_fail_cnt' = [mem_fail_cnt EXCEPT ![d] = OnSuccess(@)]
  \/ /\ o = "fail"
     /\ Attempt(mem_fail_cnt[d])
     /\ gpu_memory_total_' = [gpu_memory_total_ EXCEPT ![d] = Bytes(0)]
     /\ gpu_memory_used_' = [gpu_memory_used_ EXCEPT ![d] = Bytes(0)]
     /\ mem_fail_cnt' = [mem_fail_cnt EXCEPT ![d] = OnFailure(@)]
  \/ /\ o = "skip"
     /\ ~Attempt(mem_fail_cnt[d])
     /\ UNCHANGED <<gpu_memory_total_, gpu_memory_used_, mem_fail_cnt>>

\* the counter of kind k for device d
FailCnt(d, k) ==
  CASE k = "power_limit" -> power_limit_fail_cnt[d]
    [] k = "power_usage" -> power_usage_fail_cnt[d]
    [] k = "energy" -> energy_fail_cnt[d]
    [] k = "util" -> util_fail_cnt[d]
    [] k = "mem" -> mem_fail_cnt[d]

\* the outcomes of one iteration on device d when the hardware fails the reads of
\* the kinds in F: a kind whose counter reached the threshold is not read at all
OutcomesOf(d, F) ==
  [k \in Kinds |-> IF ~Attempt(FailCnt(d, k)) THEN "skip"
                   ELSE IF k \in F THEN "fail" ELSE "ok"]

\* the history of one iteration whose reads had the outcomes o
NoteOutcomes(d, o) ==
  /\ failed_pairs' = failed_pairs \cup {<<d, k>> : k \in {j \in Kinds : o[j] = "fail"}}
  /\ round_reads' = round_reads \cup {<<d, k>> : k \in {j \in Kinds : o[j] # "skip"}}
  /\ consecutive' =
       [k \in Kinds |->
          [consecutive[k] EXCEPT ![d] =
             IF o[k] = "ok" THEN 0 ELSE IF o[k] = "fail" THEN @ + 1 ELSE @]]
  /\ energy_seeded' = IF o["energy"] = "ok" THEN energy_seeded \cup {d}
                      ELSE energy_seeded
  /\ first_energy' = IF o["energy"] = "ok" /\ d \notin energy_seeded
                     THEN [first_energy EXCEPT ![d] = energy_trace[rounds]]
                     ELSE first_energy

\* one iteration of `for (didx = 0; didx < dcnt; ++didx)` in the lambda: the five
\* kinds in the order of the source, each on its own counter and instances; then
\* the next device, or the round is over.  The hardware fails the reads of any set
\* F of kinds, within the bound on the pairs that fail in one run.
SampleDevice ==
  /\ spc = "sample"
  /\ \E F \in SUBSET {k \in Kinds : Attempt(FailCnt(s_didx, k))} :
       /\ Cardinality(failed_pairs \cup {<<s_didx, k>> : k \in F}) <= MaxFaulty
       /\ LET o == OutcomesOf(s_didx, F)
          IN /\ SamplePowerLimit(s_didx, o["power_limit"])
             /\ SamplePowerUsage(s_didx, o["power_usage"])
             /\ SampleEnergy(s_didx, o["energy"])
             /\ SampleUtilization(s_didx, o["util"])
             /\ SampleMemory(s_didx, o["mem"])
             /\ NoteOutcomes(s_didx, o)
  /\ IF s_didx < s_dcnt
     THEN /\ s_didx' = s_didx + 1
          /\ spc' = "sample"
     ELSE /\ s_didx' = s_didx
          /\ spc' = "loop"
  /\ UNCHANGED <<cpu_only, enabled_ret, energy_trace,
                 singleton_flags, gpu_metrics_enabling_,
                 nvml_device_, gpu_labels, thread_fields, pc, init_locals, s_dcnt, dpc,
                 lookup_vars, enable_history, rounds>>

(***************************************************************************)
(* Metrics::~Metrics.  The singleton is a function-local static: it is     *)
(* destroyed once, at process exit, when no call of the class is running   *)
(* and none starts afterwards.                                             *)
(***************************************************************************)
\* if (nvml_thread_ != nullptr) { nvml_thread_exit_.store(true); ...
DestructorBegin ==
  /\ dpc = "alive"
  /\ \A c \in Callers : pc[c] \in {"idle", "done"}
  /\ IF nvml_thread_
     THEN /\ nvml_thread_exit_' = TRUE
          /\ dpc' = "join"
     ELSE /\ UNCHANGED nvml_thread_exit_
          /\ dpc' = "destroyed"
  /\ UNCHANGED <<cpu_only, enabled_ret, energy_trace,
                 singleton_flags, gpu_metrics_enabling_, nvml_device_,
                 instances, nvml_thread_, pc, init_locals, spc, sampler_locals,
                 lookup_vars, enable_history, sampler_history>>

\* (variant for the checks of C3: the destructor does not wait for the thread)
JoinedAtOnce(position) == TRUE

\* whether join() returns, for the position of the thread
Joined(position) == position = "exited"

\* ... nvml_thread_->join(); } returns once the lambda has returned
DestructorJoin ==
  /\ dpc = "join"
  /\ Joined(spc)
  /\ dpc' = "destroyed"
  /\ UNCHANGED <<cpu_only, enabled_ret, energy_trace,
                 singleton_flags, gpu_metrics_enabling_, nvml_device_,
                 instances, thread_fields, pc, init_locals, spc, sampler_locals,
                 lookup_vars, enable_history, sampler_history>>

(***************************************************************************)
(* Metrics::UUIDForCudaDevice(cuda_device, &uuid): takes no lock           *)
(***************************************************************************)
\* the hardware calls made before the function returns, for the outcome of its calls
LookupCalls(outcome) ==
  CASE outcome = "busid_fail" -> 1
    [] outcome = "handle_fail" -> 2
    [] outcome = "uuid_fail" -> 3
    [] outcome = "ok" -> 3

\* (variant for the checks of C7: gpu_metrics_enabled_ is not tested)
LookupResultUnchecked(flag, cuda_device, outcome) ==
  [called |-> TRUE, cuda_device |-> cuda_device, outcome |-> outcome,
   ret |-> (outcome = "ok"), hw_calls |-> LookupCalls(outcome)]

\* the return value and the calls made: false at once when the flag is clear,
\* false at the first failing call, true when the three calls succeed
LookupResult(flag, cuda_device, outcome) ==
  IF ~flag
  THEN [called |-> TRUE, cuda_device |-> cuda_device, outcome |-> outcome,
        ret |-> FALSE, hw_calls |-> 0]
  ELSE [called |-> TRUE, cuda_device |-> cuda_device, outcome |-> outcome,
        ret |-> (outcome = "ok"), hw_calls |-> LookupCalls(outcome)]

\* cudaDeviceGetPCIBusId fails for an index the machine does not have
UUIDForCudaDevice ==
  /\ dpc = "alive"
  /\ lookups < MaxLookups
  /\ \E cuda_device \in LookupIndices, outcome \in LookupOutcomes :
       /\ cuda_device >= MaxDevices => outcome = "busid_fail"
       /\ lookup' = LookupResult(gpu_metrics_enabled_, cuda_device, outcome)
       /\ uuid' = IF lookup'.ret THEN UuidStr(cuda_device) ELSE uuid
  /\ lookups' = lookups + 1
  /\ UNCHANGED <<cpu_only, enabled_ret, energy_trace,
                 singleton_flags, gpu_metrics_enabling_, nvml_device_,
                 instances, thread_fields, pc, init_locals, spc, sampler_locals, dpc,
                 enable_history, sampler_history>>

(***************************************************************************)
(* The specifications                                                      *)
(***************************************************************************)
EnableGPUMetrics(c) ==
  \/ AcquireEnabling(c)
  \/ ReturnIfEnabled(c)
  \/ SkipDiscovery(c)
  \/ EnterInitialize(c)
  \/ SetEnabled(c)

InitializeNvmlMetrics(c) ==
  \/ NvmlInit(c)
  \/ GetDeviceCount(c)
  \/ \E outcome \in EnumOutcomes : EnumerateDevice(c, outcome)
  \/ FinishInitialize(c)

Sampler ==
  \/ LoopTest
  \/ Sleep
  \/ SampleDevice

Destructor ==
  \/ DestructorBegin
  \/ DestructorJoin

Next ==
  \/ \E c \in Callers : EnableGPUMetrics(c)
  \/ \E c \in Callers : InitializeNvmlMetrics(c)
  \/ Sampler
  \/ Destructor
  \/ UUIDForCudaDevice
  \/ EnableMetrics
  \/ CallEnabled

Spec == Init /\ [][Next]_vars

(***************************************************************************)
(* Two parts of the system, each closed under the variables it reads.      *)
(*                                                                         *)
(* EnableSpec: the callers of EnableGPUMetrics, UUIDForCudaDevice and      *)
(* EnableMetrics, in every interleaving.  The steps of the sampler thread  *)
(* and of the destructor are left out: they read and write none of the     *)
(* flags, the mutex, the device list or the callers' locals.  FlagsSpec    *)
(* has the callers of Enabled in place of those of UUIDForCudaDevice,      *)
(* which reads and writes nothing Enabled or EnableMetrics touch.          *)
(*                                                                         *)
(* SamplerSpec: one caller enables the GPU metrics on a machine of         *)
(* 0..MaxDevices devices that all enumerate, then the sampler thread and   *)
(* the destructor run in every interleaving.  The other callers and the    *)
(* lookups are left out: the sampler and the destructor read nothing they  *)
(* write, and of the enumeration the sampler reads the number of tracked   *)
(* devices only.                                                           *)
(***************************************************************************)
NextEnable ==
  \/ \E c \in Callers : EnableGPUMetrics(c)
  \/ \E c \in Callers : InitializeNvmlMetrics(c)
  \/ UUIDForCudaDevice
  \/ EnableMetrics

\* the meter that starts above zero and never decreases
SteadyTrace ==
  CHOOSE t \in EnergyTraces :
    t[1] > 0 /\ \A i \in 1..(Len(t) - 1) : t[i] <= t[i + 1]

\* no step of NextEnable reads the energy meter or the exit flag: one trace
\* stands for all, and the uninitialized flag holds the value that the store
\* before the construction of the thread has to overwrite
InitEnable ==
  /\ Init
  /\ energy_trace = SteadyTrace
  /\ nvml_thread_exit_ = TRUE

EnableSpec == InitEnable /\ [][NextEnable]_vars

\* the callers of EnableGPUMetrics with those of EnableMetrics and Enabled
NextFlags ==
  \/ \E c \in Callers : EnableGPUMetrics(c)
  \/ \E c \in Callers : InitializeNvmlMetrics(c)
  \/ EnableMetrics
  \/ CallEnabled

FlagsSpec == InitEnable /\ [][NextFlags]_vars

Enabler == CHOOSE c \in Callers : TRUE

NextSampler ==
  \/ AcquireEnabling(Enabler)
  \/ SkipDiscovery(Enabler)
  \/ EnterInitialize(Enabler)
  \/ SetEnabled(Enabler)
  \/ NvmlInit(Enabler)
  \/ GetDeviceCount(Enabler)
  \/ EnumerateDevice(Enabler, "ok")
  \/ FinishInitialize(Enabler)
  \/ Sampler
  \/ Destructor

SamplerSpec == Init /\ [][NextSampler]_vars

\* the readings of the meter decide no branch of the sampler or of the
\* destructor: where only their control flow matters one trace stands for all
InitSteady ==
  /\ Init
  /\ energy_trace = SteadyTrace

\* The sampler is a running thread and every hardware call returns; the thread
\* that runs ~Metrics goes on once join() can return.  Nothing is assumed of the
\* caller, nor of when the process exits.
FairSamplerSpec ==
  /\ InitSteady
  /\ [][NextSampler]_vars
  /\ WF_vars(Sampler)
  /\ WF_vars(DestructorJoin)

\* The same threads in longer runs of the sampler: a pair can be read with
\* success, fail three times in a row and be left out of further rounds.
LongSampler ==
  \/ LoopTestWithin(MaxLongRounds)
  \/ Sleep
  \/ SampleDevice

NextLongSampler ==
  \/ AcquireEnabling(Enabler)
  \/ SkipDiscovery(Enabler)
  \/ EnterInitialize(Enabler)
  \/ SetEnabled(Enabler)
  \/ NvmlInit(Enabler)
  \/ GetDeviceCount(Enabler)
  \/ EnumerateDevice(Enabler, "ok")
  \/ FinishInitialize(Enabler)
  \/ LongSampler
  \/ Destructor

LongSamplerSpec == InitSteady /\ [][NextLongSampler]_vars

(***************************************************************************)
(* Properties                                                              *)
(***************************************************************************)
Positions == 1..s_dcnt

Pairs == {<<d, k>> : d \in Positions, k \in Kinds}

\* the CUDA indices of the tracked devices
TrackedIndices == {nvml_device_[j] : j \in 1..Len(nvml_device_)}

\* the six vectors of instances run parallel to nvml_device_
InstancesParallel ==
  /\ Len(gpu_labels) = Len(nvml_device_)
  /\ Len(gpu_utilization_) = Len(nvml_device_)
  /\ Len(gpu_memory_total_) = Len(nvml_device_)
  /\ Len(gpu_memory_used_) = Len(nvml_device_)
  /\ Len(gpu_power_usage_) = Len(nvml_device_)
  /\ Len(gpu_power_limit_) = Len(nvml_device_)
  /\ Len(gpu_energy_consumption_) = Len(nvml_device_)

\* some caller is inside InitializeNvmlMetrics
Initializing == \E c \in Callers : pc[c] \in {"nvml_init", "get_count", "enumerate"}

----------------------------------------------------------------------------
\* C1: a read fails at most 3 times in a row; once kind k on device d has failed 3
\* times in a row no later step reads it (it is never again added to the reads of
\* a round); and at the end of every round every pair whose counter is below 3 has
\* been read in that round.
C1_NeverMoreThanThreshold ==
  \A p \in Pairs : consecutive[p[2]][p[1]] <= 3

C1_OthersReadEveryRound ==
  (spc = "loop" /\ rounds >= 1) =>
     \A p \in Pairs : FailCnt(p[1], p[2]) < 3 => p \in round_reads

C1_TrippedNeverRead ==
  \A p \in Pairs :
     consecutive[p[2]][p[1]] >= 3 => (p \in round_reads' => p \in round_reads)

\* C1: no pair fails more than 3 times in a row, a pair that failed 3 times in a
\* row is never read again, every pair below the threshold is read in every round
C1_Theorem ==
  /\ [](C1_NeverMoreThanThreshold /\ C1_OthersReadEveryRound)
  /\ [][C1_TrippedNeverRead]_vars

\* a round has ended in which a pair tripped earlier was not read while the nine
\* other pairs of two devices were
C1_Witness ==
  /\ spc = "loop"
  /\ s_dcnt = 2
  /\ \E p \in Pairs :
       /\ consecutive[p[2]][p[1]] = 3
       /\ p \notin round_reads
       /\ round_reads = Pairs \ {p}

----------------------------------------------------------------------------
\* C2: however the callers of EnableGPUMetrics interleave, InitializeNvmlMetrics
\* is entered at most once, and exactly once as soon as one call has returned
\* (without the CPU-only override); at most one thread is constructed; no device
\* is tracked twice and every tracked device has one instance per metric.
C2_Theorem ==
  /\ init_runs <= 1
  /\ threads_started <= 1
  /\ ((\E c \in Callers : pc[c] = "done") /\ ~cpu_only) => init_runs = 1
  /\ \A i, j \in 1..Len(nvml_device_) : nvml_device_[i] = nvml_device_[j] => i = j
  /\ InstancesParallel

\* every caller has returned, one of them discovered two devices and started the
\* thread
C2_Witness ==
  /\ \A c \in Callers : pc[c] = "done"
  /\ init_runs = 1
  /\ threads_started = 1
  /\ Len(nvml_device_) >= 2

----------------------------------------------------------------------------
\* C3: once ~Metrics has set the exit flag and waits in join(), the sampler thread
\* eventually returns and the join returns; after the join has returned no GPU
\* metric instance is written; with no thread the destructor ends without waiting.
C3_Terminates == (dpc = "join") ~> (spc = "exited" /\ dpc = "destroyed")

C3_NoWriteAfterJoin == dpc = "destroyed" => instances' = instances

C3_NoWaitWithoutThread ==
  (dpc = "alive" /\ dpc' # "alive" /\ ~nvml_thread_) => dpc' = "destroyed"

\* C3: after the exit flag is set the thread returns and the join returns; no
\* instance is written after the join; without a thread the destructor never waits
C3_Theorem ==
  /\ C3_Terminates
  /\ [][C3_NoWriteAfterJoin]_vars
  /\ [][C3_NoWaitWithoutThread]_vars

\* the destructor has joined a thread that had sampled at least one round
C3_Witness ==
  /\ dpc = "destroyed"
  /\ nvml_thread_
  /\ spc = "exited"
  /\ rounds >= 1

----------------------------------------------------------------------------
\* the device whose energy read succeeded in this step, if any
EnergyReadOk(d) ==
  /\ <<d, "energy">> \in round_reads'
  /\ <<d, "energy">> \notin round_reads
  /\ consecutive'["energy"][d] = 0

\* C4 (as claimed): the first successful energy sample of a device seeds last_raw
\* and adds nothing; every later successful sample adds (raw - last_raw) x 0.001
\* and sets last_raw to raw.
C4_Claim ==
  [][\A d \in Positions :
       EnergyReadOk(d) =>
          /\ last_energy'[d] = energy_trace[rounds]
          /\ gpu_energy_consumption_'[d] =
               IF d \in energy_seeded
               THEN gpu_energy_consumption_[d]
                      + Milli((energy_trace[rounds] - last_energy[d]) % EnergyModulus)
               ELSE gpu_energy_consumption_[d]]_vars

----------------------------------------------------------------------------
\* C5: with the CPU-only override, discovery is never entered, no device is
\* tracked, no thread is constructed, every call that has returned leaves the flag
\* set; and once the flag is set no step changes the flag, the devices, the
\* instances or the thread.
C5_Override ==
  cpu_only =>
     /\ init_runs = 0
     /\ nvml_device_ = <<>>
     /\ gpu_labels = <<>>
     /\ ~nvml_thread_
     /\ threads_started = 0
     /\ \A c \in Callers : pc[c] = "done" => gpu_metrics_enabled_

C5_LaterCallNoOp ==
  (cpu_only /\ gpu_metrics_enabled_) =>
     UNCHANGED <<gpu_metrics_enabled_, nvml_device_, instances, thread_fields,
                 init_locals, enable_history>>

\* C5: under the CPU-only override nothing is discovered or started, and once the
\* flag is set a later call changes nothing
C5_Theorem == [](C5_Override) /\ [][C5_LaterCallNoOp]_vars

\* under the override a first call set the flag and a later call has returned too
C5_Witness ==
  /\ cpu_only
  /\ gpu_metrics_enabled_
  /\ \A c \in Callers : pc[c] = "done"

----------------------------------------------------------------------------
\* C6 (as claimed): when InitializeNvmlMetrics has returned false (nvmlInit or
\* cudaGetDeviceCount failed) no device is tracked, no thread is started and the
\* GPU-metrics-enabled flag stays false.
C6_Claim ==
  init_ret = "false" =>
     /\ nvml_device_ = <<>>
     /\ ~nvml_thread_
     /\ ~gpu_metrics_enabled_

----------------------------------------------------------------------------
\* C7: a call of UUIDForCudaDevice returns false without any hardware call when
\* the flag is false, returns false when one of its three calls fails, leaves the
\* caller's uuid unchanged whenever it returns false, returns true exactly when
\* the flag is set and the three calls succeed, then writing the uuid of the
\* device; it leaves the mutex and the callers of EnableGPUMetrics alone, and it
\* can always be called, whoever holds the mutex and whatever the sampler does.
C7_Call ==
  lookups' = lookups + 1 =>
     /\ lookup'.called
     /\ ~gpu_metrics_enabled_ => (~lookup'.ret /\ lookup'.hw_calls = 0)
     /\ lookup'.outcome # "ok" => ~lookup'.ret
     /\ lookup'.ret <=> (gpu_metrics_enabled_ /\ lookup'.outcome = "ok")
     /\ ~lookup'.ret => uuid' = uuid
     /\ lookup'.ret => (uuid' = UuidStr(lookup'.cuda_device) /\ lookup'.hw_calls = 3)
     /\ UNCHANGED <<gpu_metrics_enabling_, pc, spc, singleton_flags>>

C7_NeverBlocks == lookups < MaxLookups => ENABLED UUIDForCudaDevice

\* C7: UUIDForCudaDevice fails closed, writes the uuid only when it returns true,
\* and never blocks
C7_Theorem == [](C7_NeverBlocks) /\ [][C7_Call]_vars

\* a lookup has succeeded and written the uuid of device 1
C7_Witness ==
  /\ lookup.called
  /\ lookup.ret
  /\ lookup.cuda_device = 1
  /\ uuid = UuidStr(1)

----------------------------------------------------------------------------
\* C8: a device whose UUID read failed during enumeration is tracked, under the
\* label "unknown", with one instance in each of the six vectors.
C8_Theorem ==
  /\ InstancesParallel
  /\ \A i \in 1..Len(enum_log) :
        enum_log[i] = "uuid_fail" =>
           \E j \in 1..Len(nvml_device_) :
              /\ nvml_device_[j] = i - 1
              /\ gpu_labels[j] = UnknownUuid

\* enumeration is over and a device whose UUID read failed is tracked
C8_Witness ==
  /\ init_ret = "true"
  /\ \E i \in 1..Len(enum_log) : enum_log[i] = "uuid_fail" /\ (i - 1) \in TrackedIndices

----------------------------------------------------------------------------
\* C9 (as claimed): a failure at any of the four per-device steps skips exactly
\* that device: the tracked devices are those whose four steps all succeeded.
C9_Claim ==
  \A i \in 1..Len(enum_log) : (enum_log[i] = "ok") <=> ((i - 1) \in TrackedIndices)

\* C9 (amended): a failure of one of the first three steps (device properties,
\* bus id, handle) skips exactly that device, a failed UUID read does not; the
\* loop visits every index the device count reported, whatever failed before.
C9_Theorem ==
  /\ InstancesParallel
  /\ \A i \in 1..Len(enum_log) :
        (enum_log[i] \in {"props_fail", "busid_fail", "handle_fail"})
           <=> ((i - 1) \notin TrackedIndices)
  /\ TrackedIndices \subseteq 0..(Len(enum_log) - 1)
  /\ init_ret = "true" => Len(enum_log) = device_count

\* the first device was skipped and the second one is tracked
C9_Witness ==
  /\ init_ret = "true"
  /\ Len(enum_log) = 2
  /\ enum_log[1] \in {"props_fail", "busid_fail", "handle_fail"}
  /\ nvml_device_ = <<1>>

----------------------------------------------------------------------------
\* C10: once the device count was read InitializeNvmlMetrics returns true; outside
\* InitializeNvmlMetrics a thread exists iff a device is tracked; a run that
\* tracked devices constructed exactly one thread, with the exit flag cleared,
\* and a run that tracked none constructed no thread.
C10_Theorem ==
  /\ (device_count >= 0 /\ ~Initializing) => init_ret = "true"
  /\ ~Initializing => (nvml_thread_ <=> Len(nvml_device_) > 0)
  /\ ~Initializing => threads_started = (IF Len(nvml_device_) > 0 THEN 1 ELSE 0)
  /\ init_ret = "true" => dcnt = Len(nvml_device_)
  /\ nvml_thread_ => (~exit_at_start /\ spc # "none")
  /\ ~nvml_thread_ => spc = "none"

\* the call has returned with a device tracked and the thread started
C10_Witness ==
  /\ \E c \in Callers : pc[c] = "done"
  /\ init_ret = "true"
  /\ Len(nvml_device_) > 0
  /\ nvml_thread_
  /\ threads_started = 1

----------------------------------------------------------------------------
\* what every step but a call of Enabled() leaves alone
AllButEnabledRet ==
  <<cpu_only, energy_trace, singleton_flags, gpu_metrics_enabling_, nvml_device_,
    instances, thread_fields, pc, init_locals, spc, sampler_locals, dpc,
    lookup_vars, enable_history, sampler_history>>

\* what EnableMetrics() and Enabled() neither read nor write
GpuSide ==
  <<gpu_metrics_enabled_, gpu_metrics_enabling_, nvml_device_, instances,
    thread_fields, pc, init_locals, spc, sampler_locals>>

\* every return value of Enabled() seen so far agrees with the flag's history:
\* "true" is returned only once the flag is set
C11_ReturnsFlag == enabled_ret = "true" => metrics_enabled_

\* EnableMetrics() on a set flag is a step that changes nothing
C11_Idempotent ==
  (metrics_enabled_ /\ dpc = "alive") => ENABLED (EnableMetrics /\ UNCHANGED vars)

C11_Steps ==
  \* the flag changes only from false to true, and only by EnableMetrics()
  /\ metrics_enabled_' # metrics_enabled_ =>
        (~metrics_enabled_ /\ metrics_enabled_' /\ EnableMetrics)
  \* EnableMetrics() leaves the flag set and the GPU side alone
  /\ EnableMetrics => (metrics_enabled_' /\ UNCHANGED GpuSide)
  \* Enabled() returns the flag whatever the GPU side is, and writes nothing
  /\ enabled_ret' # enabled_ret =>
        /\ enabled_ret' = (IF metrics_enabled_ THEN "true" ELSE "false")
        /\ UNCHANGED AllButEnabledRet
  \* no step of EnableGPUMetrics() changes what Enabled() returns
  /\ (pc' # pc \/ gpu_metrics_enabled_' # gpu_metrics_enabled_) =>
        UNCHANGED <<metrics_enabled_, enabled_ret>>

\* C11: Enabled() is false until the first EnableMetrics() and true ever after,
\* EnableMetrics() is idempotent, Enabled() changes no state, neither touches the
\* GPU flag, the devices or the thread, and EnableGPUMetrics() never changes what
\* Enabled() returns.
C11_Theorem ==
  /\ ~metrics_enabled_
  /\ [](C11_ReturnsFlag /\ C11_Idempotent)
  /\ [][C11_Steps]_vars

\* Enabled() returned true while a caller of EnableGPUMetrics() is still
\* enumerating and the GPU flag is not set yet
C11_Witness ==
  /\ metrics_enabled_
  /\ enabled_ret = "true"
  /\ ~gpu_metrics_enabled_
  /\ \E c \in Callers : pc[c] = "enumerate"

----------------------------------------------------------------------------
\* in this step kind k of device d was read and the read succeeded / failed
ReadOk(d, k) ==
  /\ <<d, k>> \in round_reads'
  /\ <<d, k>> \notin round_reads
  /\ consecutive'[k][d] = 0

ReadFailed(d, k) ==
  /\ <<d, k>> \in round_reads'
  /\ <<d, k>> \notin round_reads
  /\ consecutive'[k][d] = consecutive[k][d] + 1

\* the exposed value is exactly raw / den, as a ratio of integers
IsRatio(value, raw, den) ==
  /\ value \div PerUnit = raw \div den
  /\ (value % PerUnit) * den = (raw % den) * PerUnit

C12_Steps ==
  \A d \in Positions :
    /\ ReadOk(d, "power_limit") =>
         \E raw \in PowerLimitReadings : IsRatio(gpu_power_limit_'[d], raw, 1000)
    /\ ReadOk(d, "power_usage") =>
         \E raw \in PowerUsageReadings : IsRatio(gpu_power_usage_'[d], raw, 1000)
    /\ ReadOk(d, "util") =>
         \E raw \in UtilReadings : IsRatio(gpu_utilization_'[d], raw, 100)
    /\ ReadOk(d, "mem") =>
         \E raw \in MemReadings :
            /\ IsRatio(gpu_memory_total_'[d], raw.total, 1)
            /\ IsRatio(gpu_memory_used_'[d], raw.used, 1)

----------------------------------------------------------------------------
\* the gauges of kind k on device d (the energy kind has a counter, no gauge)
GaugesOf(d, k) ==
  CASE k = "power_limit" -> <<gpu_power_limit_[d]>>
    [] k = "power_usage" -> <<gpu_power_usage_[d]>>
    [] k = "util" -> <<gpu_utilization_[d]>>
    [] k = "mem" -> <<gpu_memory_total_[d], gpu_memory_used_[d]>>
    [] k = "energy" -> <<>>

\* the values a successful read of gauge kind k can write
WrittenOnSuccess(k) ==
  CASE k = "power_limit" -> {<<Milli(r)>> : r \in PowerLimitReadings}
    [] k = "power_usage" -> {<<Milli(r)>> : r \in PowerUsageReadings}
    [] k = "util" -> {<<Percent(r)>> : r \in UtilReadings}
    [] k = "mem" -> {<<Bytes(r.total), Bytes(r.used)>> : r \in MemReadings}

\* the zero a failed read of gauge kind k writes
Zeros(k) == IF k = "mem" THEN <<0, 0>> ELSE <<0>>

GaugeKinds == Kinds \ {"energy"}

C13_Steps ==
  \A d \in Positions :
    /\ \A k \in Kinds :
          /\ (ReadOk(d, k) \/ ReadFailed(d, k)) => FailCnt(d, k) < fail_threshold
          /\ ReadOk(d, k) => FailCnt(d, k)' = 0
          /\ ReadFailed(d, k) => FailCnt(d, k)' = FailCnt(d, k) + 1
    /\ \A k \in GaugeKinds :
          /\ ReadOk(d, k) => GaugesOf(d, k)' \in WrittenOnSuccess(k)
          /\ ReadFailed(d, k) => GaugesOf(d, k)' = Zeros(k)
    \* energy: a success adds the scaled difference to the reading kept (or
    \* nothing when the reading seeds), a failure adds nothing
    /\ ReadOk(d, "energy") =>
          /\ last_energy'[d] = energy_trace[rounds]
          /\ gpu_energy_consumption_'[d] - gpu_energy_consumption_[d] \in
                {0, Milli((energy_trace[rounds] - last_energy[d]) % EnergyModulus)}
    /\ ReadFailed(d, "energy") =>
          /\ gpu_energy_consumption_'[d] = gpu_energy_consumption_[d]
          /\ last_energy'[d] = last_energy[d]

\* C13 (as claimed): on failure a zero value is written to the instance of the
\* kind read, the energy counter included: after a failed read the instance of
\* that (device, kind) shows 0.
C13_Claim ==
  [][\A d \in Positions :
       /\ \A k \in GaugeKinds : ReadFailed(d, k) => GaugesOf(d, k)' = Zeros(k)
       /\ ReadFailed(d, "energy") => gpu_energy_consumption_'[d] = 0]_vars

\* C13 (amended): every attempted read either succeeds, resetting the failure
\* counter of its (device, kind) and writing the transformed value, or fails,
\* adding one to that counter; a failed read of a gauge kind writes zero to its
\* gauge(s), a failed energy read writes nothing: the counter keeps the value it
\* has accumulated and last_raw is unchanged.
C13_Theorem == [][C13_Steps]_vars

\* the power usage of the first device was read in an earlier round and its read
\* failed in this one: the gauge shows 0 and the counter 1, the other kinds of
\* the device show their readings
C13_Witness ==
  /\ rounds >= 2
  /\ s_dcnt >= 1
  /\ {<<1, k>> : k \in Kinds} \subseteq round_reads
  /\ power_usage_fail_cnt[1] = 1
  /\ consecutive["power_usage"][1] = 1
  /\ gpu_power_usage_[1] = 0
  /\ gpu_power_limit_[1] > 0
  /\ gpu_utilization_[1] > 0
  /\ gpu_energy_consumption_[1] > 0
  /\ \A k \in Kinds \ {"power_usage"} : FailCnt(1, k) = 0

----------------------------------------------------------------------------
\* every counter is in 0..3 and is the number of reads of its pair that failed
\* in a row up to now: a success in between restarts the count
C14_Range ==
  \A p \in Pairs :
     /\ FailCnt(p[1], p[2]) \in 0..3
     /\ FailCnt(p[1], p[2]) = consecutive[p[2]][p[1]]

C14_Steps ==
  \A p \in Pairs :
     /\ FailCnt(p[1], p[2])' # FailCnt(p[1], p[2]) =>
           /\ FailCnt(p[1], p[2]) < 3
           /\ \/ FailCnt(p[1], p[2])' = 0 /\ ReadOk(p[1], p[2])
              \/ FailCnt(p[1], p[2])' = FailCnt(p[1], p[2]) + 1 /\ ReadFailed(p[1], p[2])
     /\ FailCnt(p[1], p[2]) = 3 =>
           /\ FailCnt(p[1], p[2])' = 3
           /\ ~ReadOk(p[1], p[2])
           /\ ~ReadFailed(p[1], p[2])

\* C14: every failure counter stays in 0..3, changes only to 0 on a successful
\* read or by +1 on a failed read, both only below 3, never changes once it is 3,
\* and counts consecutive failures only.
C14_Theorem == []C14_Range /\ [][C14_Steps]_vars

\* a counter reached 3 in the third round and a fourth round has gone by: it is
\* still 3, its pair was not read, every other counter is 0
C14_Witness ==
  /\ spc = "loop"
  /\ rounds = 4
  /\ \E p \in Pairs :
       /\ FailCnt(p[1], p[2]) = 3
       /\ p \notin round_reads
       /\ \A q \in Pairs \ {p} : FailCnt(q[1], q[2]) = 0 /\ q \in round_reads

----------------------------------------------------------------------------
\* the metric instance(s) of kind k on device d
InstancesOf(d, k) ==
  IF k = "energy" THEN <<gpu_energy_consumption_[d]>> ELSE GaugesOf(d, k)

\* kind k of device d was read in this step
WasRead(d, k) == ReadOk(d, k) \/ ReadFailed(d, k)

C15_Steps ==
  \A d \in Positions :
    \* a pair that is not read keeps its counter and its instance(s), whatever
    \* the reads of the other pairs gave; reads happen on the device of the turn
    /\ \A k \in Kinds :
          /\ WasRead(d, k) => (spc = "sample" /\ d = s_didx)
          /\ ~WasRead(d, k) =>
                /\ FailCnt(d, k)' = FailCnt(d, k)
                /\ InstancesOf(d, k)' = InstancesOf(d, k)
    /\ ~WasRead(d, "energy") => last_energy'[d] = last_energy[d]
    \* a failed read of kind j does not spoil the read of kind k of the same device
    /\ \A j \in Kinds : \A k \in Kinds \ {j} :
          (ReadFailed(d, j) /\ ReadOk(d, k)) =>
             /\ FailCnt(d, k)' = 0
             /\ k \in GaugeKinds => GaugesOf(d, k)' \in WrittenOnSuccess(k)
             /\ k = "energy" => last_energy'[d] = energy_trace[rounds]
    \* the two memory gauges are one kind: one read, one counter, one outcome
    /\ ReadFailed(d, "mem") =>
          (gpu_memory_total_'[d] = 0 /\ gpu_memory_used_'[d] = 0)
    /\ ReadOk(d, "mem") =>
          (gpu_memory_total_'[d] > 0 /\ gpu_memory_used_'[d] > 0)

\* C15: the outcome of the read of kind k on device d changes the failure
\* counter and the instance(s) of (d, k) and, for energy, last_raw of d, and
\* nothing of any other pair; memory total and used are a single kind.
C15_Theorem == [][C15_Steps]_vars

\* in the second round or later the utilization read of the first device has
\* just failed: its gauge is 0 and its counter 1, the other kinds of the device
\* hold their readings, and the second device, not yet sampled in this round,
\* holds the utilization of the round before with its counter at 0
C15_Witness ==
  /\ spc = "sample"
  /\ s_dcnt = 2
  /\ s_didx = 2
  /\ rounds >= 2
  /\ round_reads = {<<1, k>> : k \in Kinds}
  /\ util_fail_cnt[1] = 1
  /\ gpu_utilization_[1] = 0
  /\ gpu_power_usage_[1] > 0
  /\ \A k \in Kinds \ {"util"} : FailCnt(1, k) = 0
  /\ gpu_utilization_[2] > 0
  /\ \A k \in Kinds : FailCnt(2, k) = 0

----------------------------------------------------------------------------
\* how far the thread is from its end once the flag is set: a sleep, then the
\* round, then the test of the flag, then the return
StepsToExit(position) ==
  CASE position = "sleep" -> 3
    [] position = "sample" -> 2
    [] position = "loop" -> 1
    [] position = "exited" -> 0
    [] position = "none" -> 0

\* no gauge and no counter of a tracked device has been written
NothingWritten ==
  /\ \A d \in 1..Len(nvml_device_) :
        /\ gpu_utilization_[d] = 0
        /\ gpu_memory_total_[d] = 0
        /\ gpu_memory_used_[d] = 0
        /\ gpu_power_usage_[d] = 0
        /\ gpu_power_limit_[d] = 0
        /\ gpu_energy_consumption_[d] = 0
  /\ round_reads = {}

C16_BeforeFirstSleep == rounds = 0 => NothingWritten

C16_Steps ==
  \* the thread returns only from the test of the flag, and only when it is set
  /\ (spc' = "exited" /\ spc # "exited") => (spc = "loop" /\ nvml_thread_exit_)
  \* a sleep starts only from the test of the flag, found clear
  /\ (spc' = "sleep" /\ spc # "sleep") => (spc = "loop" /\ ~nvml_thread_exit_)
  \* a round starts only at the end of a sleep, one round for one sleep
  /\ rounds' # rounds => (spc = "sleep" /\ spc' = "sample" /\ rounds' = rounds + 1)
  /\ (spc' = "sample" /\ spc # "sample") => (spc = "sleep" /\ rounds' = rounds + 1)
  \* the instances are written inside a round only
  /\ (spc # "none" /\ instances' # instances) => (spc = "sample" /\ rounds >= 1)
  \* the flag, once set for a running thread, stays set
  /\ (nvml_thread_ /\ nvml_thread_exit_) => nvml_thread_exit_'
  \* with the flag set the thread only moves towards its end, and the end of a
  \* sleep moves it strictly: at most one sleep and one round are still to come
  /\ (nvml_thread_ /\ nvml_thread_exit_) =>
        /\ StepsToExit(spc') <= StepsToExit(spc)
        /\ rounds' # rounds => StepsToExit(spc') < StepsToExit(spc)
        /\ rounds' <= rounds + 1
  /\ spc = "exited" => (spc' = "exited" /\ rounds' = rounds /\ instances' = instances)

\* C16: only the exit flag ends the loop and it is tested before each sleep;
\* every round follows one sleep and nothing is written before the first sleep;
\* once the flag is set at most one more sleep and one more round take place.
C16_Theorem == []C16_BeforeFirstSleep /\ [][C16_Steps]_vars

\* the flag was set before the end of the first sleep: the destructor waits, the
\* first round is about to sample the first device and nothing is written yet
C16_Witness ==
  /\ dpc = "join"
  /\ nvml_thread_exit_
  /\ spc = "sample"
  /\ rounds = 1
  /\ s_didx = 1
  /\ Len(nvml_device_) >= 1
  /\ NothingWritten

----------------------------------------------------------------------------
\* discovery is over: no caller is inside InitializeNvmlMetrics, every index the
\* device count reported has been visited, the thread exists iff a device is tracked
DiscoveryComplete ==
  /\ ~Initializing
  /\ device_count >= 0 => Len(enum_log) = device_count
  /\ nvml_thread_ <=> Len(nvml_device_) > 0
  /\ InstancesParallel

C17_State ==
  /\ gpu_metrics_enabled_ => DiscoveryComplete
  /\ \A c \in Callers : pc[c] = "done" => (gpu_metrics_enabled_ /\ DiscoveryComplete)

C17_Steps ==
  \* the flag is written by the holder of the lock, after discovery, to true
  /\ gpu_metrics_enabled_' # gpu_metrics_enabled_ =>
        /\ gpu_metrics_enabled_'
        /\ gpu_metrics_enabling_ # 0
        /\ pc[gpu_metrics_enabling_] = "set_enabled"
        /\ pc'[gpu_metrics_enabling_] = "done"
        /\ DiscoveryComplete
  \* once set it stays set, and discovery is not run again
  /\ gpu_metrics_enabled_ =>
        /\ gpu_metrics_enabled_'
        /\ UNCHANGED <<nvml_device_, instances, nvml_thread_, init_runs, enum_log>>

\* C17: the GPU flag is set only after discovery has finished and only by the
\* holder of the enabling lock; whenever a call of EnableGPUMetrics() has
\* returned, early or not, discovery is complete; the flag never becomes false.
C17_Theorem == []C17_State /\ [][C17_Steps]_vars

\* one caller has discovered a device, started the thread and returned; another
\* holds the lock and is about to return early on the flag
C17_Witness ==
  /\ gpu_metrics_enabled_
  /\ \E c \in Callers : pc[c] = "done"
  /\ \E c \in Callers : pc[c] = "locked" /\ gpu_metrics_enabling_ = c
  /\ init_runs = 1
  /\ Len(nvml_device_) >= 1
  /\ nvml_thread_

----------------------------------------------------------------------------
\* the raw readings of the rounds begun so far never decreased
NonDecreasingSoFar ==
  \A i \in 1..(rounds - 1) : energy_trace[i] <= energy_trace[i + 1]

\* last_energy[d] is the raw reading of the latest successful read of a device
\* that has one: every success ends with last_energy[didx] = energy
C18_Accounted ==
  \A d \in Positions :
     (NonDecreasingSoFar /\ energy_fail_cnt[d] < fail_threshold) =>
        gpu_energy_consumption_[d] =
           IF d \in energy_seeded
           THEN Milli(last_energy[d] - first_energy[d])
           ELSE 0

C18_FailureKeeps ==
  \A d \in Positions :
     ReadFailed(d, "energy") =>
        /\ last_energy'[d] = last_energy[d]
        /\ gpu_energy_consumption_'[d] = gpu_energy_consumption_[d]

\* C18 (as claimed): a failed energy read leaves last_raw and the counter
\* unchanged, and while the raw readings (any values, 0 included) do not decrease
\* and the energy kind has not tripped the counter equals (raw of the latest
\* successful read - raw of the first successful read) x 0.001.
C18_Claim == []C18_Accounted /\ [][C18_FailureKeeps]_vars

----------------------------------------------------------------------------
C19_Steps ==
  \A d \in Positions :
     \* the counter never goes down
     /\ gpu_energy_consumption_'[d] >= gpu_energy_consumption_[d]
     \* a successful reading below the one read before adds the difference wrapped
     \* around the width of the word, which is more than nothing
     /\ (ReadOk(d, "energy") /\ d \in energy_seeded
           /\ energy_trace[rounds] < last_energy[d]) =>
          /\ gpu_energy_consumption_'[d] - gpu_energy_consumption_[d] =
                Milli(EnergyModulus - (last_energy[d] - energy_trace[rounds]))
          /\ gpu_energy_consumption_'[d] > gpu_energy_consumption_[d]

\* C19: the energy counter never decreases; the difference is taken in unsigned
\* arithmetic, so a successful reading lower than the previous one adds the
\* wrapped-around difference, not zero and not a negative amount.
C19_Theorem == [][C19_Steps]_vars

\* the meter read 1500 and then 500: the third round added the wrapped difference
C19_Witness ==
  /\ rounds = 3
  /\ spc = "loop"
  /\ energy_trace[2] = 1500
  /\ energy_trace[3] = 500
  /\ \E d \in Positions :
       /\ last_energy[d] = 500
       /\ energy_fail_cnt[d] = 0
       /\ <<d, "energy">> \notin failed_pairs
       /\ gpu_energy_consumption_[d] = Milli(EnergyModulus - 1000)

----------------------------------------------------------------------------
\* kind k has tripped on device d
Tripped(d, k) == FailCnt(d, k) = fail_threshold

C20_TrippedGaugeIsZero ==
  \A d \in Positions : \A k \in GaugeKinds :
     Tripped(d, k) => GaugesOf(d, k) = Zeros(k)

C20_Steps ==
  \A d \in Positions :
    \* no later round writes the instance(s) of a tripped pair, gauge or counter
    /\ \A k \in Kinds :
          Tripped(d, k) =>
             /\ Tripped(d, k)'
             /\ InstancesOf(d, k)' = InstancesOf(d, k)
    \* the write that trips a gauge is the zero of the third failure in a row
    /\ \A k \in GaugeKinds :
          (~Tripped(d, k) /\ Tripped(d, k)') =>
             (ReadFailed(d, k) /\ consecutive'[k][d] = 3 /\ GaugesOf(d, k)' = Zeros(k))
    \* the failure that trips the energy kind writes nothing
    /\ (~Tripped(d, "energy") /\ Tripped(d, "energy")') =>
          gpu_energy_consumption_'[d] = gpu_energy_consumption_[d]

\* C20: a gauge kind that has tripped on a device shows 0 from then on, the zero
\* written by its third failure in a row, and no later round writes it; a
\* tripped energy counter keeps the value it had accumulated.
C20_Theorem == []C20_TrippedGaugeIsZero /\ [][C20_Steps]_vars

\* the utilization of the first device has tripped and at least one later round
\* has gone by: the gauge shows 0 and was not read in that round, while the other
\* kinds of the device were and hold their readings
C20_Witness ==
  /\ spc = "loop"
  /\ rounds >= 5
  /\ Tripped(1, "util")
  /\ gpu_utilization_[1] = 0
  /\ round_reads \cap {<<1, k>> : k \in Kinds} = {<<1, k>> : k \in Kinds \ {"util"}}
  /\ gpu_power_usage_[1] > 0
  /\ gpu_memory_used_[1] > 0
  /\ gpu_energy_consumption_[1] > 0

====
